---- MODULE Spec2Model ----
(***************************************************************************)
(* Model of the LinkedIn plugin scripts:                                   *)
(*   scripts/oauth-server.py  - the one-shot OAuth callback flow           *)
(*   scripts/linkedin-api.py  - the credential loader and the API commands *)
(*                                                                         *)
(* Text is modelled as a sequence of symbols.  A symbol is one character   *)
(* ("a", "-", ":", a quote, a newline, a digit) or one literal word of the *)
(* program text that contains none of the characters the parser looks at   *)
(* (a key name such as "access_token").                                    *)
(***************************************************************************)
EXTENDS Integers, Sequences, FiniteSets, TLC

\* ------------------------------------------------------------------------
\* Bounds of the model
\* ------------------------------------------------------------------------
MaxLen == 2          \* longest display name drawn as an input
Resolution == 2      \* clock ticks per second (time.time() is fractional)
StartSec == 1        \* earliest second of the clock
MaxSec == 4          \* latest second of the clock
MaxLifetime == 1     \* largest expires_in drawn as an input

\* ------------------------------------------------------------------------
\* Text helpers (Python str methods)
\* ------------------------------------------------------------------------
DQ == "\""
SQ == "'"
NL == "\n"
SP == " "
Whitespace == {SP, NL}
Delim == <<"-", "-", "-">>

Min(S) == CHOOSE x \in S : \A y \in S : x <= y

\* s.startswith(p)
StartsWith(s, p) == Len(s) >= Len(p) /\ SubSeq(s, 1, Len(p)) = p

\* s.find(p) + 1, 0 when p does not occur
IndexOf(s, p) ==
  LET hits == {i \in 1..(Len(s) - Len(p) + 1) : SubSeq(s, i, i + Len(p) - 1) = p}
  IN IF hits = {} THEN 0 ELSE Min(hits)

\* s.split(sep)
RECURSIVE Split(_, _)
Split(s, sep) ==
  LET i == IndexOf(s, sep)
  IN IF i = 0 THEN <<s>>
     ELSE <<SubSeq(s, 1, i - 1)>> \o Split(SubSeq(s, i + Len(sep), Len(s)), sep)

\* s.strip(chars)
RECURSIVE LStrip(_, _)
LStrip(s, chars) ==
  IF s # <<>> /\ Head(s) \in chars THEN LStrip(Tail(s), chars) ELSE s

RECURSIVE RStrip(_, _)
RStrip(s, chars) ==
  IF s # <<>> /\ s[Len(s)] \in chars THEN RStrip(SubSeq(s, 1, Len(s) - 1), chars) ELSE s

Strip(s, chars) == RStrip(LStrip(s, chars), chars)

\* s.partition(sep) for a one-symbol sep: <<before, after>>
Partition(s, c) ==
  LET i == IndexOf(s, <<c>>)
  IN IF i = 0 THEN <<s, <<>>>> ELSE <<SubSeq(s, 1, i - 1), SubSeq(s, i + 1, Len(s))>>

Contains(s, c) == \E i \in 1..Len(s) : s[i] = c

\* str(n) of an integer: an optional sign and decimal digits
DigitChars == <<"0", "1", "2", "3", "4", "5", "6", "7", "8", "9">>

RECURSIVE Digits(_)
Digits(n) == IF n < 10 THEN <<DigitChars[n + 1]>>
             ELSE Digits(n \div 10) \o <<DigitChars[(n % 10) + 1]>>

IntToStr(n) == IF n < 0 THEN <<"-">> \o Digits(-n) ELSE Digits(n)

\* int(s): surrounding whitespace and one sign are accepted
IsDigit(c) == \E d \in 1..10 : DigitChars[d] = c
DigitVal(c) == (CHOOSE d \in 1..10 : DigitChars[d] = c) - 1

RECURSIVE DigitsVal(_, _)
DigitsVal(s, acc) == IF s = <<>> THEN acc
                     ELSE DigitsVal(Tail(s), acc * 10 + DigitVal(Head(s)))

Unsigned(s) == LET t == Strip(s, Whitespace)
               IN IF t # <<>> /\ Head(t) \in {"-", "+"} THEN Tail(t) ELSE t

IsIntStr(s) == LET u == Unsigned(s)
               IN u # <<>> /\ \A i \in 1..Len(u) : IsDigit(u[i])

StrToInt(s) == LET t == Strip(s, Whitespace)
                   v == DigitsVal(Unsigned(s), 0)
               IN IF t # <<>> /\ Head(t) = "-" THEN -v ELSE v

\* ------------------------------------------------------------------------
\* The clock: now counts ticks, Resolution ticks to the second
\* ------------------------------------------------------------------------
IntTime(t) == t \div Resolution                  \* int(time.time())
TimeAfter(t, sec) == t > sec * Resolution        \* time.time() > sec

\* ------------------------------------------------------------------------
\* State
\* ------------------------------------------------------------------------
VARIABLES
  store,          \* the settings file: [exists, content]
  now,            \* the clock, in ticks
  args,           \* the arguments of the operation under way
  saved,          \* what the last save_settings call was given and when
  load_result,    \* outcome of the last load_settings call
  pc,             \* run_oauth_flow: the step the flow is at
  expected_state, \* server.expected_state
  auth_result,    \* server.auth_result, the result cell
  listening,      \* the loopback listener is bound and not yet closed
  req,            \* the request handle_request() consumed
  handled,        \* number of requests consumed
  token_data,     \* the token endpoint's answer
  identity,       \* (person_id, display_name) from the user-info endpoint
  net,            \* outbound HTTP calls issued so far, in order
  out,            \* lines printed so far, in order, each a tuple <<tag, fields...>>
  exit_code,      \* exit status of the process once it has ended
  store0,         \* the settings file as it was when the run began
  writes,         \* number of writes of the settings file in this run
  cmd,            \* linkedin-api.py: the parsed command line
  api_pc,         \* the step the command is at
  idx,            \* index of the image being uploaded
  calls,          \* HTTP calls issued so far, in order: <<method, endpoint, status>>
  api_out,        \* lines printed so far, in order, each a tuple <<tag, fields...>>
  api_exit,       \* exit status once the command has ended
  post_id,        \* identifier create_post read from the response
  resp_headers    \* the identifier header of the response to POST /posts

storeVars == <<store, now, args, saved, load_result>>
vars == <<store, now, args, saved, load_result, pc, expected_state, auth_result, listening, req, handled, token_data, identity, net, out, exit_code, store0, writes, cmd, api_pc, idx, calls, api_out, api_exit, post_id, resp_headers>>
apiVars == <<cmd, api_pc, idx, calls, api_out, api_exit, post_id, resp_headers>>
oauthVars == <<pc, expected_state, auth_result, listening, req, handled, token_data, identity, net, out, exit_code, store0, writes>>

NoFile == [exists |-> FALSE, content |-> <<>>]
File(c) == [exists |-> TRUE, content |-> c]

\* ------------------------------------------------------------------------
\* oauth-server.py: save_settings
\* ------------------------------------------------------------------------
KeyLine(key, value) == <<key, ":", SP>> \o value \o <<NL>>
Quoted(v) == <<DQ>> \o v \o <<DQ>>

\* the text written to the settings file at clock reading t
save_settings(client_id, client_secret, access_token, person_urn, display_name, expires_in, t) ==
  LET expires_at == IntTime(t) + expires_in
  IN Delim \o <<NL>>
     \o KeyLine("client_id", Quoted(client_id))
     \o KeyLine("client_secret", Quoted(client_secret))
     \o KeyLine("access_token", Quoted(access_token))
     \o KeyLine("person_urn", Quoted(person_urn))
     \o KeyLine("display_name", Quoted(display_name))
     \o KeyLine("token_expires_at", IntToStr(expires_at))
     \o Delim \o <<NL, NL, "# LinkedIn Plugin Settings", NL, NL, "Authenticated as **">>
     \o display_name \o <<"** (">> \o person_urn \o <<").", NL, NL>>
     \o <<"Token expires at", ":", SP>> \o IntToStr(expires_at) \o <<NL, NL>>
     \o <<"To re-authenticate, run /linkedin", ":", "setup again.", NL>>

\* ------------------------------------------------------------------------
\* linkedin-api.py: load_settings
\* ------------------------------------------------------------------------
EmptySettings == [k \in {} |-> <<>>]

Put(d, k, v) == [x \in (DOMAIN d) \cup {k} |-> IF x = k THEN v ELSE d[x]]

\* one line of the frontmatter: settings[key.strip()] = value, when it has a colon
ParseLine(settings, rawline) ==
  LET line == Strip(rawline, Whitespace)
      kv == Partition(line, ":")
      value == Strip(Strip(Strip(kv[2], Whitespace), {DQ}), {SQ})
  IN IF Contains(line, ":") THEN Put(settings, Strip(kv[1], Whitespace), value)
     ELSE settings

RECURSIVE ParseLines(_, _)
ParseLines(settings, lines) ==
  IF lines = <<>> THEN settings
  ELSE ParseLines(ParseLine(settings, Head(lines)), Tail(lines))

\* the dictionary read from the frontmatter of a well-formed file
ParseFrontmatter(content) ==
  LET frontmatter == Split(content, Delim)[2]
  IN ParseLines(EmptySettings, Split(Strip(frontmatter, Whitespace), <<NL>>))

Get(d, k, default) == IF k \in DOMAIN d THEN d[k] ELSE default

K_token == <<"access_token">>
K_urn == <<"person_urn">>
K_name == <<"display_name">>
K_exp == <<"token_expires_at">>

\* variant: only the presence of the required keys is tested, not their emptiness
MissingKey_absentOnly(settings) ==
  IF K_token \notin DOMAIN settings THEN K_token
  ELSE IF K_urn \notin DOMAIN settings THEN K_urn
  ELSE <<>>

\* the first required key that is missing or empty, <<>> when there is none
MissingKey(settings) ==
  IF K_token \notin DOMAIN settings \/ settings[K_token] = <<>> THEN K_token
  ELSE IF K_urn \notin DOMAIN settings \/ settings[K_urn] = <<>> THEN K_urn
  ELSE <<>>

\* variant: time.time() >= expires_at
Expired_ge(expires_at, t) == expires_at # 0 /\ t >= expires_at * Resolution
\* expires_at and time.time() > expires_at
Expired(expires_at, t) == expires_at # 0 /\ TimeAfter(t, expires_at)

Outcome(status, code, settings) ==
  [status |-> status, exit |-> code, returned |-> status = "ok", settings |-> settings, at |-> 0]

\* status: "ok" (the dictionary is returned), or the error the call ends on:
\* not_found, invalid, missing, expired (sys.exit(1)), crash (int() raises)
load_settings_at(file, t) ==
  IF ~file.exists THEN Outcome("not_found", 1, EmptySettings)
  ELSE IF ~StartsWith(file.content, Delim) THEN Outcome("invalid", 1, EmptySettings)
  ELSE LET settings == ParseFrontmatter(file.content)
           text == Get(settings, K_exp, <<"0">>)
       IN IF MissingKey(settings) # <<>> THEN Outcome("missing", 1, settings)
          ELSE IF ~IsIntStr(text) THEN Outcome("crash", 1, settings)
          ELSE IF Expired(StrToInt(text), t) THEN Outcome("expired", 1, settings)
          ELSE Outcome("ok", 0, settings)

NotLoaded == Outcome("none", 0, EmptySettings)

load_settings(file, t) == [load_settings_at(file, t) EXCEPT !.at = t]

\* ------------------------------------------------------------------------
\* Inputs: settings files as an operator may have left them, and the
\* arguments save_settings is called with
\* ------------------------------------------------------------------------
Absent == <<"<no line>">>

StoredLine(key, text) == IF text = Absent THEN <<>> ELSE KeyLine(key, text)

\* a settings file with the given text after each key (Absent: no such line)
StoredFile(token, urn, name, exp) ==
  File(Delim \o <<NL>>
       \o StoredLine("access_token", token) \o StoredLine("person_urn", urn)
       \o StoredLine("display_name", name) \o StoredLine("token_expires_at", exp)
       \o Delim \o <<NL, NL, "# LinkedIn Plugin Settings", NL>>)

UrnPrefix == <<"urn", ":", "li", ":", "person", ":">>

StoredTokens == {Absent, <<>>, Quoted(<<>>), Quoted(<<"t">>), <<"t">>}
StoredUrns == {Absent, <<>>, Quoted(<<>>), Quoted(UrnPrefix \o <<"p">>)}
StoredNames == {Absent, Quoted(<<"a">>)}
StoredExpiries ==
  {Absent, <<"s", "o", "o", "n">>} \cup {IntToStr(n) : n \in -1..(MaxSec + 1)}
  \cup {Quoted(IntToStr(StartSec))}

StoredFiles ==
  {NoFile, File(<<"a">>)} \cup
  {StoredFile(t, u, n, e) : t \in StoredTokens, u \in StoredUrns,
                            n \in StoredNames, e \in StoredExpiries}

Ticks == (StartSec * Resolution)..(MaxSec * Resolution)

NameAlphabet == {"a", DQ, SQ, "-", NL, ":"}
Strs(alphabet, n) == UNION {[1..k -> alphabet] : k \in 0..n}

ClientId == <<"cid">>
ClientSecret == <<"secret">>
AccessTokens == {<<"t">>, <<"t", "u">>}
PersonIds == {<<>>, <<"p">>}
Lifetimes == 0..MaxLifetime

SaveArgs ==
  [access_token : AccessTokens, person_urn : {UrnPrefix \o p : p \in PersonIds},
   display_name : Strs(NameAlphabet, MaxLen), expires_in : Lifetimes]

NoArgs == [access_token |-> <<>>, person_urn |-> <<>>, display_name |-> <<>>, expires_in |-> 0]

NotSaved == [done |-> FALSE, at |-> 0, args |-> NoArgs]

\* ------------------------------------------------------------------------
\* Actions on the credential store
\* ------------------------------------------------------------------------
Tick ==
  /\ now < MaxSec * Resolution
  /\ now' = now + 1
  /\ UNCHANGED <<store, args, saved, load_result>>
  /\ UNCHANGED oauthVars
  /\ UNCHANGED apiVars

\* an API command starts: settings = load_settings()
Load ==
  /\ load_result' = load_settings(store, now)
  /\ UNCHANGED <<store, now, args, saved>>
  /\ UNCHANGED oauthVars
  /\ UNCHANGED apiVars

\* the last step of one run of the OAuth flow: save_settings(...) overwrites the file
Save ==
  /\ ~saved.done
  /\ store' = File(save_settings(ClientId, ClientSecret, args.access_token, args.person_urn, args.display_name, args.expires_in, now))
  /\ saved' = [done |-> TRUE, at |-> now, args |-> args]
  /\ load_result' = NotLoaded
  /\ UNCHANGED <<now, args>>
  /\ UNCHANGED oauthVars
  /\ UNCHANGED apiVars


\* ------------------------------------------------------------------------
\* oauth-server.py: the callback handler
\* ------------------------------------------------------------------------
\* a Python dictionary with string keys
EmptyDict == [k \in {} |-> <<>>]
None == [k \in {"<None>"} |-> ""]
Has(d, k) == k \in DOMAIN d

\* urllib.parse.parse_qs on a query of key=value pairs: each key is mapped to
\* the list of its values in order, pairs with a blank value are dropped
RECURSIVE ValuesOf(_, _)
ValuesOf(query, key) ==
  IF query = <<>> THEN <<>>
  ELSE (IF Head(query)[1] = key /\ Head(query)[2] # "" THEN <<Head(query)[2]>> ELSE <<>>)
       \o ValuesOf(Tail(query), key)

parse_qs(query) ==
  LET keys == {query[i][1] : i \in {j \in 1..Len(query) : query[j][2] # ""}}
  IN [k \in keys |-> ValuesOf(query, k)]

\* params.get(key, [default])[0]
First(params, key, default) == IF key \in DOMAIN params THEN params[key][1] ELSE default

\* variant: the state parameter is not compared
do_GET_anyState(params, expected) ==
  IF ~Has(params, "code")
  THEN [status |-> 400,
        result |-> ("error" :> First(params, "error", "unknown")
                    @@ "error_description" :> First(params, "error_description", "No details"))]
  ELSE [status |-> 200, result |-> ("code" :> params["code"][1])]

\* variant: the error parameters of the request are not read
do_GET_defaultError(params, expected) ==
  IF ~Has(params, "code")
  THEN [status |-> 400,
        result |-> ("error" :> "unknown" @@ "error_description" :> "No details")]
  ELSE IF First(params, "state", "") # expected
  THEN [status |-> 400, result |-> ("error" :> "state_mismatch")]
  ELSE [status |-> 200, result |-> ("code" :> params["code"][1])]

\* OAuthCallbackHandler.do_GET: the HTTP status answered and the value
\* assigned to server.auth_result
do_GET(params, expected) ==
  IF ~Has(params, "code")
  THEN [status |-> 400,
        result |-> ("error" :> First(params, "error", "unknown")
                    @@ "error_description" :> First(params, "error_description", "No details"))]
  ELSE IF First(params, "state", "") # expected
  THEN [status |-> 400, result |-> ("error" :> "state_mismatch")]
  ELSE [status |-> 200, result |-> ("code" :> params["code"][1])]

\* variant: every method is handled as a GET
handle_anyMethod(request, cell, expected) == do_GET(request.params, expected).result

\* BaseHTTPRequestHandler dispatch of the one request: the class defines
\* do_GET only, so any other method is answered 501 and leaves the cell as
\* it is; do_GET does not look at the path
handle(request, cell, expected) ==
  IF request.method = "GET" THEN do_GET(request.params, expected).result
  ELSE cell

\* ------------------------------------------------------------------------
\* oauth-server.py: run_oauth_flow
\* ------------------------------------------------------------------------
DEFAULT_EXPIRES_IN == 5184000

\* variant: the description is not printed
check_result_noDescription(result) ==
  IF result = None THEN [failed |-> TRUE, error |-> "no_response", desc |-> "", code |-> ""]
  ELSE IF Has(result, "error")
  THEN [failed |-> TRUE, error |-> result["error"], desc |-> "", code |-> ""]
  ELSE [failed |-> FALSE, error |-> "", desc |-> "", code |-> result["code"]]

\* variant: only an empty cell stops the flow
check_result_onlyNone(result) ==
  IF result = None THEN [failed |-> TRUE, error |-> "no_response", desc |-> "", code |-> ""]
  ELSE [failed |-> FALSE, error |-> "", desc |-> "",
        code |-> IF Has(result, "code") THEN result["code"] ELSE ""]

\* lines 172-179: whether the flow stops, with the error and description it
\* prints, or else the code it goes on with
check_result(result) ==
  IF result = None THEN [failed |-> TRUE, error |-> "no_response", desc |-> "", code |-> ""]
  ELSE IF Has(result, "error")
  THEN [failed |-> TRUE, error |-> result["error"],
        desc |-> IF Has(result, "error_description") THEN result["error_description"] ELSE "",
        code |-> ""]
  ELSE [failed |-> FALSE, error |-> "", desc |-> "", code |-> result["code"]]

\* --- inputs of the flow ---
MaxPairs == 3
StateTokens == {"S1", "S2"}
ParamKeys == {"code", "state", "error", "error_description"}
ParamValues == {"", "S1", "S2", "unknown"}
Methods == {"GET", "POST"}
Paths == {"/callback", "/favicon.ico"}
Queries == UNION {[1..n -> ParamKeys \X ParamValues] : n \in 0..MaxPairs}
\* a request as the handler sees it: params = parse_qs(urlparse(self.path).query)
Request(m, p, q) == [method |-> m, path |-> p, params |-> parse_qs(q)]
NoRequest == [method |-> "", path |-> "", params |-> EmptyDict]

HttpError == [ok |-> FALSE]
\* a token response: JSON with access_token and expires_in, either may be missing
TokenResponses ==
  {HttpError} \cup
  [ok : {TRUE}, has_token : BOOLEAN, access_token : AccessTokens,
   has_expires : BOOLEAN, expires_in : Lifetimes]
\* a user-info response: JSON with sub and name, either may be missing
IdentityNames == {<<"a">>, <<"a", DQ>>}
IdentityResponses ==
  {HttpError} \cup
  [ok : {TRUE}, has_sub : BOOLEAN, sub : PersonIds \ {<<>>},
   has_name : BOOLEAN, name : IdentityNames]

NoTokenData == [access_token |-> <<>>, expires_in |-> 0]
NoIdentity == [person_id |-> <<>>, display_name |-> <<>>]

\* a parsed command line.  n: number of image paths; missing: index of the
\* first path that is no file (0: all exist); thumbnail: "" when not given;
\* text_len: len(text); text_missing: --text-file names no file
Cmd(name, preview, n, missing, thumbnail, text_len, text_missing) ==
  [name |-> name, preview |-> preview, n |-> n, missing |-> missing,
   thumbnail |-> thumbnail, text_len |-> text_len, text_missing |-> text_missing]

NoCmd == Cmd("", FALSE, 0, 0, "", 0, FALSE)

\* a response without the identifier header
NoHeader == [name |-> "", value |-> ""]

ApiIdle ==
  /\ cmd = NoCmd
  /\ api_pc = "idle"
  /\ idx = 0
  /\ calls = <<>>
  /\ api_out = <<>>
  /\ api_exit = 0
  /\ post_id = ""
  /\ resp_headers = NoHeader

OAuthIdle ==
  /\ pc = "idle"
  /\ expected_state = ""
  /\ auth_result = None
  /\ listening = FALSE
  /\ req = NoRequest
  /\ handled = 0
  /\ token_data = NoTokenData
  /\ identity = NoIdentity
  /\ net = <<>>
  /\ out = <<>>
  /\ exit_code = 0
  /\ store0 = NoFile
  /\ writes = 0

\* an uncaught exception: traceback, exit status 1
Crash == pc' = "failed" /\ exit_code' = 1 /\ out' = Append(out, <<"Traceback">>)

\* variant: the token is installed but no socket is bound
Bind_notListening ==
  /\ pc = "start"
  /\ \/ /\ \E s \in StateTokens : expected_state' = s
        /\ auth_result' = None
        /\ listening' = FALSE
        /\ pc' = "bound"
        /\ UNCHANGED <<out, exit_code>>
     \/ /\ Crash
        /\ UNCHANGED <<expected_state, auth_result, listening>>
  /\ UNCHANGED <<req, handled, token_data, identity, net, store0, writes>>
  /\ UNCHANGED storeVars
  /\ UNCHANGED apiVars

\* lines 142-158: the state token is drawn, the listener is bound to the
\* port (OSError when the port is taken), the token and an empty cell are
\* installed on it
Bind ==
  /\ pc = "start"
  /\ \/ /\ \E s \in StateTokens : expected_state' = s
        /\ auth_result' = None
        /\ listening' = TRUE
        /\ pc' = "bound"
        /\ UNCHANGED <<out, exit_code>>
     \/ /\ Crash
        /\ UNCHANGED <<expected_state, auth_result, listening>>
  /\ UNCHANGED <<req, handled, token_data, identity, net, store0, writes>>
  /\ UNCHANGED storeVars
  /\ UNCHANGED apiVars

\* lines 160-166: the URL is printed and the browser is opened
Announce ==
  /\ pc = "bound"
  /\ out' = out \o <<<<"OAUTH_URL">>, <<"REDIRECT_URI">>, <<"STATUS=waiting_for_callback">>, <<"webbrowser.open">>>>
  /\ pc' = "await"
  /\ UNCHANGED <<expected_state, auth_result, listening, req, handled, token_data, identity, net, exit_code, store0, writes>>
  /\ UNCHANGED storeVars
  /\ UNCHANGED apiVars

\* line 169: server.handle_request() returns after one request
HandleRequest ==
  /\ pc = "await"
  /\ \E m \in Methods, p \in Paths, q \in Queries :
       /\ req' = Request(m, p, q)
       /\ auth_result' = handle(Request(m, p, q), auth_result, expected_state)
  /\ handled' = handled + 1
  /\ pc' = "handled"
  /\ UNCHANGED <<expected_state, listening, token_data, identity, net, out, exit_code, store0, writes>>
  /\ UNCHANGED storeVars
  /\ UNCHANGED apiVars

\* line 170: server.server_close()
Close ==
  /\ pc = "handled"
  /\ listening' = FALSE
  /\ pc' = "closed"
  /\ UNCHANGED <<expected_state, auth_result, req, handled, token_data, identity, net, out, exit_code, store0, writes>>
  /\ UNCHANGED storeVars
  /\ UNCHANGED apiVars

\* lines 172-181: the result cell is read
CheckResult ==
  /\ pc = "closed"
  /\ IF check_result(auth_result).failed
     THEN /\ out' = Append(out, <<"ERROR", check_result(auth_result).error, check_result(auth_result).desc>>)
          /\ exit_code' = 1
          /\ pc' = "failed"
     ELSE /\ out' = Append(out, <<"STATUS=exchanging_token">>)
          /\ pc' = "exchange"
          /\ UNCHANGED exit_code
  /\ UNCHANGED <<expected_state, auth_result, listening, req, handled, token_data, identity, net, store0, writes>>
  /\ UNCHANGED storeVars
  /\ UNCHANGED apiVars

\* lines 184-189: exchange_code_for_token; urlopen raises on an HTTP error,
\* token_data["access_token"] raises when the key is missing
ExchangeToken ==
  /\ pc = "exchange"
  /\ net' = Append(net, "POST accessToken")
  /\ \E r \in TokenResponses :
       IF r.ok /\ r.has_token
       THEN /\ token_data' = [access_token |-> r.access_token,
                              expires_in |-> IF r.has_expires THEN r.expires_in ELSE DEFAULT_EXPIRES_IN]
            /\ out' = Append(out, <<"STATUS=fetching_profile">>)
            /\ pc' = "fetch"
            /\ UNCHANGED exit_code
       ELSE Crash /\ UNCHANGED token_data
  /\ UNCHANGED <<expected_state, auth_result, listening, req, handled, identity, store0, writes>>
  /\ UNCHANGED storeVars
  /\ UNCHANGED apiVars

\* lines 192-193 and 55-68: fetch_user_info
FetchIdentity ==
  /\ pc = "fetch"
  /\ net' = Append(net, "GET userinfo")
  /\ \E r \in IdentityResponses :
       IF r.ok
       THEN /\ identity' = [person_id |-> IF r.has_sub THEN r.sub ELSE <<>>,
                            display_name |-> IF r.has_name THEN r.name ELSE <<"Unknown">>]
            /\ pc' = "persist"
            /\ UNCHANGED <<out, exit_code>>
       ELSE Crash /\ UNCHANGED identity
  /\ UNCHANGED <<expected_state, auth_result, listening, req, handled, token_data, store0, writes>>
  /\ UNCHANGED storeVars
  /\ UNCHANGED apiVars

\* lines 196-201: save_settings and the success lines
Persist ==
  /\ pc = "persist"
  /\ LET a == [access_token |-> token_data.access_token,
               person_urn |-> UrnPrefix \o identity.person_id,
               display_name |-> identity.display_name,
               expires_in |-> token_data.expires_in]
     IN /\ store' = File(save_settings(ClientId, ClientSecret, a.access_token, a.person_urn, a.display_name, a.expires_in, now))
        /\ saved' = [done |-> TRUE, at |-> now, args |-> a]
  /\ writes' = writes + 1
  /\ out' = out \o <<<<"SUCCESS">>, <<"TOKEN_EXPIRES_IN">>, <<"SETTINGS_PATH">>>>
  /\ exit_code' = 0
  /\ pc' = "done"
  /\ UNCHANGED <<expected_state, auth_result, listening, req, handled, token_data, identity, net, store0>>
  /\ UNCHANGED <<now, args, load_result>>
  /\ UNCHANGED apiVars

InitOAuth ==
  /\ store \in {NoFile, StoredFile(Quoted(<<"old">>), Quoted(UrnPrefix \o <<"p">>), Absent, Absent)}
  /\ store0 = store
  /\ now = StartSec * Resolution
  /\ args = NoArgs
  /\ saved = NotSaved
  /\ load_result = NotLoaded
  /\ pc = "start"
  /\ expected_state = ""
  /\ auth_result = None
  /\ listening = FALSE
  /\ req = NoRequest
  /\ handled = 0
  /\ token_data = NoTokenData
  /\ identity = NoIdentity
  /\ net = <<>>
  /\ out = <<>>
  /\ exit_code = 0
  /\ writes = 0
  /\ ApiIdle

NextOAuth ==
  Bind \/ Announce \/ HandleRequest \/ Close \/ CheckResult \/ ExchangeToken
  \/ FetchIdentity \/ Persist

SpecOAuth == InitOAuth /\ [][NextOAuth]_vars


\* ------------------------------------------------------------------------
\* linkedin-api.py: the commands
\* ------------------------------------------------------------------------
MaxImages == 3
WARN_THRESHOLD == 3000

PostingCommands == {"post-text", "post-image", "post-multi-image", "post-article"}
TextCommands == PostingCommands \cup {"create-comment", "reply-comment"}
RequestCommands == {"get-post", "list-comments", "create-comment", "reply-comment"}
Commands == PostingCommands \cup RequestCommands \cup {"check-auth", "upload-image"}

TextLens == {5, 500, WARN_THRESHOLD, WARN_THRESHOLD + 1}

CommandLines ==
  {Cmd("post-text", p, 0, 0, "", l, m) : p \in BOOLEAN, l \in TextLens, m \in BOOLEAN}
  \cup {Cmd("post-image", p, 1, k, "", l, FALSE) : p \in BOOLEAN, k \in 0..1, l \in TextLens}
  \cup UNION {{Cmd("post-multi-image", p, n, k, "", l, FALSE) : p \in BOOLEAN, k \in 0..n, l \in TextLens}
              : n \in 1..MaxImages}
  \cup {Cmd("post-article", p, 0, 0, t, l, FALSE)
        : p \in BOOLEAN, t \in {"", "thumb.png", "nofile.png"}, l \in TextLens}
  \cup {Cmd("upload-image", FALSE, 1, k, "", 0, FALSE) : k \in 0..1}
  \cup {Cmd(c, FALSE, 0, 0, "", 0, FALSE) : c \in {"check-auth", "get-post", "list-comments"}}
  \cup {Cmd(c, FALSE, 0, 0, "", 5, m) : c \in {"create-comment", "reply-comment"}, m \in BOOLEAN}

\* variant: only the first image is uploaded
uploads_of_first(c) ==
  CASE c.name \in {"post-image", "upload-image", "post-multi-image"} -> 1
    [] c.name = "post-article" -> IF c.thumbnail # "" THEN 1 ELSE 0
    [] OTHER -> 0

\* number of upload_image calls the command makes
uploads_of(c) ==
  CASE c.name \in {"post-image", "upload-image"} -> 1
    [] c.name = "post-multi-image" -> c.n
    [] c.name = "post-article" -> IF c.thumbnail # "" THEN 1 ELSE 0
    [] OTHER -> 0

\* Path(image_path).exists() for the i-th upload of the command
image_exists(c, i) ==
  IF c.name = "post-article" THEN c.thumbnail # "nofile.png" ELSE c.missing # i

\* variant: a single image is accepted
too_few_images_none(c) == c.n < 1

\* cmd_post_multi_image: len(args.images) < 2
too_few_images(c) == c.n < 2

\* variant: args.preview is not tested
after_uploads_noPreview(c) ==
  IF c.name = "upload-image" THEN "print_urn" ELSE "create"

\* what a command does once its uploads are done: the preview report, the
\* post creation, or (upload-image) printing the URN
after_uploads(c) ==
  IF c.name = "upload-image" THEN "print_urn"
  ELSE IF c.preview THEN "preview" ELSE "create"

\* variant: a text of exactly the threshold length warns too
validate_text_length_ge(length) ==
  IF length >= WARN_THRESHOLD
  THEN [lines |-> <<<<"WARNING=Text exceeds limit", length>>, <<"RECOMMEND">>>>, ok |-> FALSE]
  ELSE [lines |-> <<<<"TEXT_LENGTH", length>>>>, ok |-> TRUE]

\* validate_text_length: the line it prints and the value it returns
validate_text_length(length) ==
  IF length > WARN_THRESHOLD
  THEN [lines |-> <<<<"WARNING=Text exceeds limit", length>>, <<"RECOMMEND">>>>, ok |-> FALSE]
  ELSE [lines |-> <<<<"TEXT_LENGTH", length>>>>, ok |-> TRUE]

\* the response header that carries the identifier, as the server spells it
HeaderNames == {"x-restli-id", "X-Restli-Id", "X-RestLi-Id"}
\* resp["headers"].get("x-restli-id", resp["headers"].get("X-Restli-Id", ""))
restli_id(header) ==
  IF header.name = "x-restli-id" THEN header.value
  ELSE IF header.name = "X-Restli-Id" THEN header.value
  ELSE ""

OkStatus == 200
ErrorStatuses == {403, 500}

Call(method, endpoint, status) == <<method, endpoint, status>>
InitCall(status) == Call("POST", "/images?action=initializeUpload", status)
PutCall(status) == Call("PUT", "uploadUrl", status)
CreateCall(status) == Call("POST", "/posts", status)
ReadPostCall(status) == Call("GET", "/posts/{id}", status)
CommentsCall(method, status) == Call(method, "/socialActions/{urn}/comments", status)

\* api_request on an HTTP error: two lines on stderr, sys.exit(1)
ApiError(status) == <<"ERROR=API request failed", status>>

\* the command ends: its last lines are printed and the process exits
Exit(lines, code) ==
  /\ api_out' = api_out \o lines
  /\ api_exit' = code
  /\ api_pc' = "exited"

PreviewLines(c) == <<<<"PREVIEW", c.name>>, <<"TEXT_LENGTH", c.text_len>>, <<"COMPOSE_URL">>>>

\* the step after the last upload (or after the start, when there is none)
Continue(c, lines) ==
  CASE after_uploads(c) = "preview" -> Exit(lines \o PreviewLines(c), 0)
    [] after_uploads(c) = "print_urn" -> Exit(lines \o <<<<"IMAGE_URN">>>>, 0)
    [] OTHER -> /\ api_pc' = "create"
                /\ api_out' = api_out \o lines
                /\ UNCHANGED api_exit

\* main() up to the command's first network call: load_settings, resolve_text,
\* validate_text_length and the argument checks of the command
ApiStart ==
  /\ api_pc = "start"
  /\ load_result' = load_settings(store, now)
  /\ LET loaded == load_settings(store, now)
         checked == IF cmd.name \in PostingCommands
                    THEN validate_text_length(cmd.text_len).lines ELSE <<>>
     IN IF ~loaded.returned
        THEN Exit(<<<<"ERROR=settings", loaded.status>>>>, 1) /\ UNCHANGED idx
        ELSE IF cmd.name = "check-auth"
        THEN Exit(<<<<"AUTHENTICATED=true">>, <<"PERSON_URN">>, <<"DISPLAY_NAME">>, <<"TOKEN_DAYS_LEFT">>>>, 0)
             /\ UNCHANGED idx
        ELSE IF cmd.name \in TextCommands /\ cmd.text_missing
        THEN Exit(<<<<"ERROR=Text file not found">>>>, 1) /\ UNCHANGED idx
        ELSE IF cmd.name = "post-multi-image" /\ too_few_images(cmd)
        THEN Exit(checked \o <<<<"ERROR=Multi-image posts require at least 2 images.">>>>, 1)
             /\ UNCHANGED idx
        ELSE IF cmd.name \in RequestCommands
        THEN /\ api_pc' = "request"
             /\ UNCHANGED <<idx, api_out, api_exit>>
        ELSE IF cmd.name = "post-text" \/ uploads_of(cmd) = 0
        THEN Continue(cmd, checked) /\ UNCHANGED idx
        ELSE /\ api_pc' = "upload_init"
             /\ idx' = 1
             /\ api_out' = api_out \o checked
             /\ UNCHANGED api_exit
  /\ UNCHANGED <<cmd, calls, post_id, resp_headers>>
  /\ UNCHANGED <<store, now, args, saved>>
  /\ UNCHANGED oauthVars

\* the progress line cmd_post_multi_image prints before each upload_image
uploading_line(c, i) ==
  IF c.name = "post-multi-image" THEN <<<<"UPLOADING", i, c.n>>>> ELSE <<>>

\* upload_image, step 1: the file must exist, then POST initializeUpload
UploadInit ==
  /\ api_pc = "upload_init"
  /\ IF ~image_exists(cmd, idx)
     THEN Exit(uploading_line(cmd, idx) \o <<<<"ERROR=Image file not found", idx>>>>, 1)
          /\ UNCHANGED calls
     ELSE \E status \in {OkStatus} \cup ErrorStatuses :
            /\ calls' = Append(calls, InitCall(status))
            /\ IF status = OkStatus
               THEN /\ api_pc' = "upload_put"
                    /\ api_out' = api_out \o uploading_line(cmd, idx)
                    /\ UNCHANGED api_exit
               ELSE Exit(uploading_line(cmd, idx) \o <<ApiError(status)>>, 1)
  /\ UNCHANGED <<cmd, idx, post_id, resp_headers>>
  /\ UNCHANGED storeVars
  /\ UNCHANGED oauthVars

\* upload_image, step 2: PUT of the bytes (urlopen raises on an HTTP error),
\* then the next upload or the rest of the command
UploadPut ==
  /\ api_pc = "upload_put"
  /\ \E status \in {OkStatus} \cup ErrorStatuses :
       /\ calls' = Append(calls, PutCall(status))
       /\ IF status # OkStatus
          THEN Exit(<<<<"Traceback">>>>, 1) /\ UNCHANGED idx
          ELSE IF idx < uploads_of(cmd)
          THEN /\ idx' = idx + 1
               /\ api_pc' = "upload_init"
               /\ UNCHANGED <<api_out, api_exit>>
          ELSE Continue(cmd, <<>>) /\ UNCHANGED idx
  /\ UNCHANGED <<cmd, post_id, resp_headers>>
  /\ UNCHANGED storeVars
  /\ UNCHANGED oauthVars

\* create_post up to the identifier: POST /posts, the header lookup
CreatePost ==
  /\ api_pc = "create"
  /\ \E status \in {OkStatus} \cup ErrorStatuses :
       /\ calls' = Append(calls, CreateCall(status))
       /\ IF status # OkStatus
          THEN Exit(<<ApiError(status)>>, 1) /\ UNCHANGED <<post_id, resp_headers>>
          ELSE \E h \in {NoHeader} \cup [name : HeaderNames, value : {"urn:li:share:1"}] :
                 /\ resp_headers' = h
                 /\ post_id' = restli_id(h)
                 /\ IF restli_id(h) # ""
                    THEN api_pc' = "verify" /\ UNCHANGED <<api_out, api_exit>>
                    ELSE Exit(<<<<"SUCCESS">>, <<"POST_ID", "">>>>, 0)
  /\ UNCHANGED <<cmd, idx>>
  /\ UNCHANGED storeVars
  /\ UNCHANGED oauthVars

\* lengths the platform may have stored for a text of the given length
StoredLens(sent) == {sent, (sent * 4) \div 5, 0}

\* variant: a text stored in full is reported as truncated
verify_lines_le(sent_len, stored_len) ==
  IF stored_len <= sent_len
  THEN <<<<"WARNING=Text truncated", sent_len, stored_len, (stored_len * 100) \div sent_len>>,
         <<"TRUNCATED_AT">>, <<"WARNING=Edit the post">>>>
  ELSE <<<<"VERIFIED", stored_len>>>>

\* verify_post_text: the lines it prints for the stored length
verify_lines(sent_len, stored_len) ==
  IF stored_len < sent_len
  THEN <<<<"WARNING=Text truncated", sent_len, stored_len, (stored_len * 100) \div sent_len>>,
         <<"TRUNCATED_AT">>, <<"WARNING=Edit the post">>>>
  ELSE <<<<"VERIFIED", stored_len>>>>

\* verify_post_text and the end of the posting command
VerifyPost ==
  /\ api_pc = "verify"
  /\ \E status \in {OkStatus} \cup ErrorStatuses :
       /\ calls' = Append(calls, ReadPostCall(status))
       /\ IF status # OkStatus
          THEN Exit(<<ApiError(status), <<"WARNING=Could not verify post text">>,
                      <<"SUCCESS">>, <<"POST_ID", post_id>>>>, 0)
          ELSE \E stored \in StoredLens(cmd.text_len) :
                 Exit(verify_lines(cmd.text_len, stored) \o <<<<"SUCCESS">>, <<"POST_ID", post_id>>>>, 0)
  /\ UNCHANGED <<cmd, idx, post_id, resp_headers>>
  /\ UNCHANGED storeVars
  /\ UNCHANGED oauthVars

\* the exit status cmd_list_comments ends with when its read request fails
list_failed_exit == 1

\* get-post, list-comments, create-comment, reply-comment: the one request
CommentRequest ==
  /\ api_pc = "request"
  /\ \E status \in {OkStatus} \cup ErrorStatuses :
       LET method == IF cmd.name \in {"get-post", "list-comments"} THEN "GET" ELSE "POST"
           call == IF cmd.name = "get-post" THEN ReadPostCall(status)
                   ELSE CommentsCall(method, status)
       IN /\ calls' = Append(calls, call)
          /\ IF status = OkStatus
             THEN Exit(<<<<"OK", cmd.name>>>>, 0)
             ELSE IF cmd.name = "get-post"
             THEN Exit(<<ApiError(status), <<"VERIFY_FAILED">>>>, 0)
             ELSE IF cmd.name = "list-comments"
             THEN Exit(<<ApiError(status), <<"LIST_FAILED">>>>, list_failed_exit)
             ELSE Exit(<<ApiError(status)>>, 1)
  /\ UNCHANGED <<cmd, idx, post_id, resp_headers>>
  /\ UNCHANGED storeVars
  /\ UNCHANGED oauthVars

ValidFile == StoredFile(Quoted(<<"t">>), Quoted(UrnPrefix \o <<"p">>), Quoted(<<"a">>), Absent)
ExpiredFile == StoredFile(Quoted(<<"t">>), Quoted(UrnPrefix \o <<"p">>), Quoted(<<"a">>), IntToStr(StartSec))

InitApi ==
  /\ store \in {ValidFile, ExpiredFile, NoFile}
  /\ now = MaxSec * Resolution
  /\ args = NoArgs
  /\ saved = NotSaved
  /\ load_result = NotLoaded
  /\ OAuthIdle
  /\ cmd \in CommandLines
  /\ api_pc = "start"
  /\ idx = 0
  /\ calls = <<>>
  /\ api_out = <<>>
  /\ api_exit = 0
  /\ post_id = ""
  /\ resp_headers = NoHeader

NextApi == ApiStart \/ UploadInit \/ UploadPut \/ CreatePost \/ VerifyPost \/ CommentRequest

SpecApi == InitApi /\ [][NextApi]_vars

\* --- loading stored files ---
InitLoad ==
  /\ store \in StoredFiles
  /\ now \in Ticks
  /\ args = NoArgs
  /\ saved = NotSaved
  /\ load_result = NotLoaded
  /\ OAuthIdle
  /\ ApiIdle

NextLoad == Load \/ Tick

SpecLoad == InitLoad /\ [][NextLoad]_vars

\* --- save followed by load ---
InitRoundTrip ==
  /\ store \in {NoFile, StoredFile(Quoted(<<"t">>), Quoted(UrnPrefix), Absent, Absent)}
  /\ now = StartSec * Resolution
  /\ args \in SaveArgs
  /\ saved = NotSaved
  /\ load_result = NotLoaded
  /\ OAuthIdle
  /\ ApiIdle

NextRoundTrip == Save \/ Load \/ Tick

SpecRoundTrip == InitRoundTrip /\ [][NextRoundTrip]_vars

\* ------------------------------------------------------------------------
\* Claims about the credential store
\* ------------------------------------------------------------------------
\* the record a well-formed settings file holds, as its frontmatter reads
HasRecord == store.exists /\ StartsWith(store.content, Delim)
Record == ParseFrontmatter(store.content)
Loaded == load_result.status # "none"
EmptyOrAbsent(d, k) == k \notin DOMAIN d \/ d[k] = <<>>
ExpiryReadable(d) == K_exp \notin DOMAIN d \/ IsIntStr(d[K_exp])
ExpiryOf(d) == StrToInt(Get(d, K_exp, <<"0">>))

\* C6: a stored record whose access_token or person_urn is absent or empty
\* makes load fail with the settings-missing error and a non-zero exit,
\* returning nothing, whatever the other fields (token_expires_at included) hold.
C6_MissingFieldFails ==
  (Loaded /\ HasRecord /\ (EmptyOrAbsent(Record, K_token) \/ EmptyOrAbsent(Record, K_urn)))
    => (load_result.status = "missing" /\ load_result.exit # 0 /\ ~load_result.returned)

C6_Witness ==
  /\ Loaded /\ HasRecord
  /\ K_token \in DOMAIN Record /\ Record[K_token] = <<>>
  /\ ~EmptyOrAbsent(Record, K_urn)
  /\ K_exp \in DOMAIN Record /\ IsIntStr(Record[K_exp])
  /\ ExpiryOf(Record) * Resolution > load_result.at
  /\ load_result.status = "missing"

\* C7: for a stored record with non-empty access_token and person_urn, load
\* fails with the token-expired error exactly when token_expires_at is set,
\* non-zero and strictly less than the current time; otherwise (absent, zero,
\* or not less than the current time) load returns the record.
C7_ExpiredExactlyWhenPast ==
  (Loaded /\ HasRecord /\ ~EmptyOrAbsent(Record, K_token) /\ ~EmptyOrAbsent(Record, K_urn)
     /\ ExpiryReadable(Record))
    => LET past == /\ K_exp \in DOMAIN Record
                   /\ ExpiryOf(Record) # 0
                   /\ ExpiryOf(Record) * Resolution < load_result.at
       IN IF past THEN load_result.status = "expired" /\ load_result.exit # 0
                       /\ ~load_result.returned
          ELSE load_result.status = "ok" /\ load_result.returned
               /\ load_result.settings = Record

C7_Witness ==
  /\ Loaded /\ HasRecord
  /\ ~EmptyOrAbsent(Record, K_token) /\ ~EmptyOrAbsent(Record, K_urn)
  /\ K_exp \in DOMAIN Record /\ IsIntStr(Record[K_exp])
  /\ ExpiryOf(Record) > 0
  /\ load_result.at = ExpiryOf(Record) * Resolution + 1
  /\ load_result.status = "expired"

\* the expiry the last save computed: second of the save + lifetime
SavedExpiry == IntTime(saved.at) + saved.args.expires_in

\* C8: save followed by load, while the lifetime has not elapsed, succeeds and
\* returns the access_token, person_urn and display_name that were saved and
\* token_expires_at = second of the save + lifetime.
C8_RoundTrip ==
  (saved.done /\ Loaded /\ load_result.at <= SavedExpiry * Resolution)
    => /\ load_result.status = "ok"
       /\ Get(load_result.settings, K_token, Absent) = saved.args.access_token
       /\ Get(load_result.settings, K_urn, Absent) = saved.args.person_urn
       /\ Get(load_result.settings, K_name, Absent) = saved.args.display_name
       /\ ExpiryReadable(load_result.settings)
       /\ K_exp \in DOMAIN load_result.settings
       /\ ExpiryOf(load_result.settings) = SavedExpiry

\* the round trip on display names of plain letters only
C8_PlainRoundTrip ==
  (\A i \in 1..Len(args.display_name) : args.display_name[i] = "a") => C8_RoundTrip

\* ------------------------------------------------------------------------
\* Claims about the OAuth callback flow
\* ------------------------------------------------------------------------
Last(q) == q[Len(q)]
CallbackGET == handled = 1 /\ req.method = "GET"
HasParam(k) == k \in DOMAIN req.params
Param(k) == req.params[k][1]
StateDiffers == ~HasParam("state") \/ Param("state") # expected_state
StateMismatch == "error" :> "state_mismatch"
ErrorResult(e, d) == "error" :> e @@ "error_description" :> d
PastCheck == handled = 1 /\ pc \notin {"handled", "closed"}
Going == pc \in {"exchange", "fetch", "persist", "done"} \/ net # <<>>
FailedWith(e, d) == pc = "failed" /\ exit_code = 1 /\ Last(out) = <<"ERROR", e, d>>

\* C1 as stated: every callback whose state differs from the generated token
\* (or is missing) sets the result cell to the state-mismatch error, with or
\* without a code parameter.
C1_Original ==
  (CallbackGET /\ StateDiffers) => auth_result = StateMismatch

\* C1 amended: a callback whose state differs from the generated token (or is
\* missing) never puts an authorization code in the result cell and the flow
\* never goes on to the token exchange; the cell holds the state-mismatch
\* error when the request carries a code, and the request's error and
\* description (defaults unknown / No details) when it carries none.
C1_StateMismatchNeverCode ==
  (CallbackGET /\ StateDiffers)
    => /\ ~Has(auth_result, "code")
       /\ ~Going
       /\ HasParam("code") => auth_result = StateMismatch
       /\ ~HasParam("code")
            => auth_result = ErrorResult(IF HasParam("error") THEN Param("error") ELSE "unknown",
                                         IF HasParam("error_description")
                                         THEN Param("error_description") ELSE "No details")

C1_Witness ==
  /\ CallbackGET /\ HasParam("code") /\ HasParam("state") /\ StateDiffers
  /\ auth_result = StateMismatch
  /\ FailedWith("state_mismatch", "")

\* C2 as stated: every callback carrying an error parameter fails the flow
\* with that error and its description, whatever else it carries, and never
\* yields a code.
C2_Original ==
  (CallbackGET /\ HasParam("error"))
    => /\ ~Has(auth_result, "code")
       /\ Has(auth_result, "error") /\ auth_result["error"] = Param("error")
       /\ ~Going

\* C2 amended: a callback carrying an error parameter and no code fails the
\* flow with that error and its description (No details when it has none);
\* when a code is present the error parameter is ignored: the flow fails with
\* state_mismatch if the state differs and receives the code if it matches.
C2_ErrorWithoutCodeFails ==
  (CallbackGET /\ HasParam("error"))
    => IF ~HasParam("code")
       THEN LET d == IF HasParam("error_description") THEN Param("error_description")
                     ELSE "No details"
            IN /\ auth_result = ErrorResult(Param("error"), d)
               /\ ~Going
               /\ PastCheck => FailedWith(Param("error"), d)
       ELSE IF StateDiffers
       THEN auth_result = StateMismatch /\ ~Going
       ELSE auth_result = ("code" :> Param("code")) /\ (PastCheck => Going \/ pc = "failed")

C2_Witness ==
  /\ CallbackGET /\ HasParam("error") /\ HasParam("error_description") /\ ~HasParam("code")
  /\ HasParam("state") /\ ~StateDiffers
  /\ FailedWith(Param("error"), Param("error_description"))

\* C3 as stated: the wait ends only on a GET request for /callback.
C3_Original ==
  handled >= 1 => (req.method = "GET" /\ req.path = "/callback")

\* C3 amended: the flow leaves AwaitCallback on the first HTTP request of any
\* method and path, and consumes exactly one request per run.  A GET request
\* for any path is handled as the callback and populates the result cell; a
\* request with another method ends the wait too, leaves the cell empty, and
\* the flow then fails with no_response.
C3_OneRequestEndsWait ==
  /\ handled <= 1
  /\ pc \in {"start", "bound", "await"} => (handled = 0 /\ auth_result = None)
  /\ pc \in {"handled", "closed", "exchange", "fetch", "persist", "done"} => handled = 1
  /\ handled = 1 => (req.method = "GET" <=> auth_result # None)
  /\ (PastCheck /\ req.method # "GET") => FailedWith("no_response", "")

C3_Witness ==
  /\ handled = 1 /\ req.method # "GET" /\ req.path = "/callback"
  /\ HasParam("code") /\ ~StateDiffers
  /\ auth_result = None /\ FailedWith("no_response", "")

\* C4 as stated: a callback without code, a callback with an explicit error
\* and a callback with a mismatching state each end the flow in Failed with a
\* non-zero exit, and the error printed tells the three apart: unknown for a
\* callback without code, state_mismatch for a state mismatch, and another
\* error for an explicit one.
C4_Original ==
  (PastCheck /\ CallbackGET /\ (~HasParam("code") \/ HasParam("error") \/ StateDiffers))
    => /\ pc = "failed" /\ exit_code # 0
       /\ Last(out)[1] = "ERROR"
       /\ HasParam("error") => Last(out)[2] \notin {"unknown", "state_mismatch"}

\* C4 amended: in the three cases as the handler tells them apart (no code and
\* no error; no code but an error; a code with a mismatching state) the flow
\* ends Failed with exit status 1 and prints, in turn, unknown / No details,
\* the request's error with its description (No details when it has none), and
\* state_mismatch with an empty description.  The state-mismatch report always
\* differs from the other two, which carry a non-empty description.
C4_ThreeFailureReports ==
  (PastCheck /\ CallbackGET)
    => /\ (~HasParam("code") /\ ~HasParam("error"))
            => FailedWith("unknown", IF HasParam("error_description")
                                     THEN Param("error_description") ELSE "No details")
       /\ (~HasParam("code") /\ HasParam("error"))
            => FailedWith(Param("error"), IF HasParam("error_description")
                                          THEN Param("error_description") ELSE "No details")
       /\ (HasParam("code") /\ StateDiffers) => FailedWith("state_mismatch", "")
       /\ ~HasParam("code") => Last(out)[3] # ""

C4_Witness ==
  /\ PastCheck /\ CallbackGET /\ ~HasParam("code") /\ ~HasParam("error")
  /\ ~StateDiffers
  /\ FailedWith("unknown", "No details")

\* C5: the settings file is written at most once in a run, and only after the
\* callback was validated, the token exchanged and the identity fetched, in
\* that order; a run that ends in Failed leaves the file as it was, and no
\* token exchange is issued after a failed validation.
C5_WriteOnlyAfterSuccess ==
  /\ writes <= 1
  /\ writes = 1 => /\ pc = "done" /\ exit_code = 0
                   /\ Has(auth_result, "code")
                   /\ net = <<"POST accessToken", "GET userinfo">>
  /\ writes = 0 => store = store0
  /\ pc = "failed" => (writes = 0 /\ store = store0 /\ exit_code # 0)
  /\ (auth_result = None \/ Has(auth_result, "error")) => net = <<>>
  /\ pc = "done" => writes = 1

C5_Witness ==
  /\ pc = "done" /\ writes = 1 /\ store # store0 /\ store0.exists
  /\ store = File(save_settings(ClientId, ClientSecret, token_data.access_token, UrnPrefix \o identity.person_id, identity.display_name, token_data.expires_in, saved.at))

\* ------------------------------------------------------------------------
\* Claims about the API commands
\* ------------------------------------------------------------------------
Exited == api_pc = "exited"
Printed(tag) == \E i \in 1..Len(api_out) : api_out[i][1] = tag
LastCallRejected(status) == calls # <<>> /\ Last(calls)[3] = status

\* C9: when the read request of list-comments is rejected for lack of the read
\* permission (HTTP 403) the command prints its informational message and
\* exits with status 0, whereas an HTTP failure of create-comment or
\* reply-comment exits with a non-zero status.
C9_ListFailureIsSoft ==
  (Exited /\ LastCallRejected(403))
    => /\ cmd.name = "list-comments" => (Printed("LIST_FAILED") /\ api_exit = 0)
       /\ cmd.name \in {"create-comment", "reply-comment"} => api_exit # 0

\* the uploads a posting command is given: its image, its images, its thumbnail
MediaCount ==
  CASE cmd.name = "post-image" -> 1
    [] cmd.name = "post-multi-image" -> cmd.n
    [] cmd.name = "post-article" /\ cmd.thumbnail # "" -> 1
    [] OTHER -> 0

\* k completed uploads: initialise, then PUT, one image after the other
UploadCalls(k) == [i \in 1..(2 * k) |-> IF i % 2 = 1 THEN InitCall(OkStatus) ELSE PutCall(OkStatus)]

CreateCalls == {i \in 1..Len(calls) : calls[i][1] = "POST" /\ calls[i][2] = "/posts"}

\* C10: a posting command in preview mode never issues a request to the
\* post-creation endpoint; when it prints its preview report it has performed
\* exactly the uploads the same command performs before creating the post
\* without preview; post-text in preview mode issues no HTTP call at all.
C10_PreviewNeverCreates ==
  cmd.name \in PostingCommands
    => /\ cmd.preview => /\ CreateCalls = {}
                         /\ api_pc # "create" /\ api_pc # "verify"
                         /\ Printed("PREVIEW") => (calls = UploadCalls(MediaCount) /\ api_exit = 0)
                         /\ cmd.name = "post-text" => calls = <<>>
       /\ (~cmd.preview /\ CreateCalls # {})
            => (~Printed("PREVIEW") /\ SubSeq(calls, 1, Min(CreateCalls) - 1) = UploadCalls(MediaCount))

C10_Witness ==
  /\ cmd.name = "post-multi-image" /\ cmd.preview /\ cmd.n >= 2
  /\ Exited /\ Printed("PREVIEW")
  /\ calls = UploadCalls(cmd.n)

\* the settings were loaded: the command got past load_settings
SettingsLoaded == load_result.returned

\* C11: post-multi-image with fewer than 2 image paths makes no network call
\* at all (no upload initialisation, no PUT, no post creation), in preview and
\* non-preview mode alike; it ends with a non-zero exit status, and when the
\* settings were loaded its last line is the argument-validation error.
C11_TooFewImagesFailFast ==
  (cmd.name = "post-multi-image" /\ cmd.n < 2)
    => /\ calls = <<>>
       /\ api_pc \in {"start", "exited"}
       /\ Exited => /\ api_exit # 0
                    /\ SettingsLoaded
                         => Last(api_out) = <<"ERROR=Multi-image posts require at least 2 images.">>

C11_Witness ==
  /\ cmd.name = "post-multi-image" /\ cmd.n = 1 /\ ~cmd.preview
  /\ Exited /\ SettingsLoaded /\ calls = <<>> /\ api_exit = 1
  /\ Printed("ERROR=Multi-image posts require at least 2 images.")

\* the progress lines printed so far, one per upload begun
Uploading == SelectSeq(api_out, LAMBDA l : l[1] = "UPLOADING")

\* the uploads that completed: their PUT was accepted
Completed == Cardinality({i \in 1..Len(calls) : calls[i] = PutCall(OkStatus)})

\* the requests issued after the completed uploads
AfterCompleted == SubSeq(calls, 2 * Completed + 1, Len(calls))

\* C12: post-multi-image with n >= 2 images uploads one image after the other
\* in argument order, each upload's initialise and PUT before the next begins;
\* POST /posts is issued only after all n uploads succeeded; when upload k
\* fails the command ends with a non-zero status, no later upload and no post
\* creation is issued, and no request undoes the uploads 1..k-1.
C12_UploadsInOrderAbortOnFailure ==
  (cmd.name = "post-multi-image" /\ cmd.n >= 2)
    => /\ Completed <= cmd.n
       /\ SubSeq(calls, 1, 2 * Completed) = UploadCalls(Completed)
       /\ Uploading = [i \in 1..Len(Uploading) |-> <<"UPLOADING", i, cmd.n>>]
       /\ Len(Uploading) \in {Completed, Completed + 1}
       /\ CreateCalls # {} => (Completed = cmd.n /\ Min(CreateCalls) = 2 * cmd.n + 1)
       /\ Completed < cmd.n
            => AfterCompleted \in {<<>>}
                 \cup {<<InitCall(s)>> : s \in {OkStatus} \cup ErrorStatuses}
                 \cup {<<InitCall(OkStatus), PutCall(s)>> : s \in ErrorStatuses}
       /\ (Completed < cmd.n /\ Exited)
            => /\ api_exit # 0
               /\ SettingsLoaded => Len(Uploading) = Completed + 1
               /\ CreateCalls = {}
               /\ ~Printed("SUCCESS") /\ ~Printed("PREVIEW")
       /\ \A i \in 1..Len(calls) : calls[i][1] \in {"POST", "PUT", "GET"}
       /\ \A i \in 1..Len(calls) :
            calls[i][1] = "GET" => (CreateCalls # {} /\ i > Min(CreateCalls))

C12_Witness ==
  /\ cmd.name = "post-multi-image" /\ cmd.n = 3 /\ ~cmd.preview
  /\ Exited /\ api_exit = 1
  /\ Completed = 1
  /\ calls = UploadCalls(1) \o <<InitCall(OkStatus), PutCall(500)>>

\* the posting command is past validate_text_length
PastLengthCheck ==
  /\ cmd.name \in PostingCommands
  /\ SettingsLoaded /\ ~cmd.text_missing /\ api_pc # "start"

\* the failures that end a posting command before POST /posts
EarlyFailures ==
  {"ERROR=settings", "ERROR=Text file not found",
   "ERROR=Multi-image posts require at least 2 images.",
   "ERROR=Image file not found", "ERROR=API request failed", "Traceback"}

\* C13: validate_text_length returns False and prints the truncation-risk
\* warning exactly when the text is longer than the threshold (3001 warns,
\* 3000 does not), and it stops nothing: a posting command without --preview
\* that ends before POST /posts ended on a settings, argument or upload
\* failure, never on the length, and post-text goes straight to POST /posts.
C13_LengthCheckIsAdvisory ==
  /\ validate_text_length(cmd.text_len).ok = ~(cmd.text_len > WARN_THRESHOLD)
  /\ PastLengthCheck
       => /\ api_out[1] = IF cmd.text_len > WARN_THRESHOLD
                          THEN <<"WARNING=Text exceeds limit", cmd.text_len>>
                          ELSE <<"TEXT_LENGTH", cmd.text_len>>
          /\ Printed("WARNING=Text exceeds limit") = (cmd.text_len > WARN_THRESHOLD)
  /\ (cmd.name \in PostingCommands /\ ~cmd.preview /\ Exited /\ CreateCalls = {})
       => (api_exit # 0 /\ Last(api_out)[1] \in EarlyFailures)
  /\ (PastLengthCheck /\ cmd.name = "post-text" /\ ~cmd.preview)
       => (api_pc = "create" \/ CreateCalls # {})

C13_Witness ==
  /\ cmd.name = "post-text" /\ ~cmd.preview /\ cmd.text_len = WARN_THRESHOLD + 1
  /\ Printed("WARNING=Text exceeds limit")
  /\ CreateCalls # {} /\ Printed("SUCCESS") /\ api_exit = 0 /\ Exited

\* the lines printed with the given tag
Lines(tag) == {api_out[i] : i \in {j \in 1..Len(api_out) : api_out[j][1] = tag}}

\* a posting command whose post was created and whose verification has ended
Verified == cmd.name \in PostingCommands /\ post_id # "" /\ Exited

\* C14: after a successful post creation whose identifier was read from the
\* response (create_post verifies only then), the verification prints the
\* truncation warning exactly when the stored commentary is shorter than the
\* text sent, with floor(stored_len * 100 / sent_len) as the percentage (400
\* of 500 gives 80), and it is advisory: truncated, intact or with the
\* re-fetch rejected by an HTTP error, the command prints the post's
\* identifier and exits with status 0.
C14_VerificationIsAdvisory ==
  Verified
    => /\ api_exit = 0
       /\ Printed("SUCCESS") /\ Last(api_out) = <<"POST_ID", post_id>>
       /\ Last(calls)[2] = "/posts/{id}"
       /\ Printed("WARNING=Could not verify post text") = (Last(calls)[3] # OkStatus)
       /\ (Printed("WARNING=Text truncated") \/ Printed("VERIFIED")) = (Last(calls)[3] = OkStatus)
       /\ ~(Printed("WARNING=Text truncated") /\ Printed("VERIFIED"))
       /\ \A l \in Lines("WARNING=Text truncated") :
            /\ l[2] = cmd.text_len /\ l[3] < l[2]
            /\ l[4] * l[2] <= l[3] * 100 /\ l[3] * 100 < (l[4] + 1) * l[2]
       /\ \A l \in Lines("VERIFIED") : l[2] >= cmd.text_len
       /\ Printed("TRUNCATED_AT") = Printed("WARNING=Text truncated")

C14_Witness ==
  /\ Verified /\ api_exit = 0
  /\ <<"WARNING=Text truncated", 500, 400, 80>> \in Lines("WARNING=Text truncated")
  /\ Last(api_out) = <<"POST_ID", "urn:li:share:1">>

\* POST /posts was accepted and create_post has read the response
Created == CreateCalls # {} /\ Last(SubSeq(calls, 1, Min(CreateCalls)))[3] = OkStatus

\* the verification request was issued
VerifyCalls == {i \in 1..Len(calls) : calls[i][1] = "GET" /\ calls[i][2] = "/posts/{id}"}

\* C15: after an accepted POST /posts the identifier create_post returns is
\* the value of the response's identifier header however the header's name
\* is spelled in upper and lower case; a post whose response carries the
\* header is never reported with an empty identifier and its verification is
\* never skipped.
C15_IdFromHeaderAnyCase ==
  (cmd.name \in PostingCommands /\ Created /\ resp_headers # NoHeader)
    => /\ post_id = resp_headers.value
       /\ <<"POST_ID", "">> \notin Lines("POST_ID")
       /\ Exited => VerifyCalls # {}

\* ------------------------------------------------------------------------
\* Claims about the order of the OAuth run
\* ------------------------------------------------------------------------
OutHas(tag) == \E i \in 1..Len(out) : out[i][1] = tag

\* the steps of run_oauth_flow during which the listener is open
ListeningSteps == {"bound", "await", "handled"}

\* the steps of run_oauth_flow from the token exchange on
ExchangeSteps == {"exchange", "fetch", "persist", "done"}

\* C16: in every OAuth run the listener is bound, with the expected state
\* token and an empty result cell installed on it, before the authorization
\* URL is printed and the browser opened, and it stays open until the one
\* request was handled; it is closed after that request and before the
\* token exchange begins.
C16_ListenerOpenFromUrlToRequest ==
  /\ listening = (pc \in ListeningSteps)
  /\ pc = "bound" => (expected_state \in StateTokens /\ auth_result = None /\ out = <<>>)
  /\ pc = "await" => (expected_state \in StateTokens /\ auth_result = None /\ handled = 0)
  /\ (OutHas("OAUTH_URL") \/ OutHas("webbrowser.open"))
       => /\ expected_state \in StateTokens
          /\ listening \/ handled = 1
  /\ handled = 0 => (req = NoRequest /\ (OutHas("OAUTH_URL") => listening))
  /\ handled <= 1
  /\ (net # <<>> \/ pc \in ExchangeSteps \/ OutHas("STATUS=exchanging_token"))
       => (~listening /\ handled = 1)

C16_Witness ==
  /\ pc = "fetch" /\ net = <<"POST accessToken">>
  /\ ~listening /\ handled = 1
  /\ OutHas("OAUTH_URL") /\ OutHas("webbrowser.open")
  /\ Has(auth_result, "code")

====
